---------------------------- MODULE Spec2Model ----------------------------
(***************************************************************************)
(* AgentMesh: the Cline CLI wrapper (lib/cline) and its tool handlers.     *)
(*                                                                         *)
(* Strings (in comments a double quote is written as a single one).        *)
(* A JavaScript string is modelled as a sequence of cells                  *)
(* <<tok, n>>: the character (or fixed word) tok repeated n >= 1 times.    *)
(* Word tokens ('say', 'text', ...) stand for that exact run of letters.   *)
(* Only the filler tokens x and ; occur with n > 1; every other token is   *)
(* one cell per occurrence, so a regular expression that names a literal   *)
(* character sees it as one cell.                                          *)
(***************************************************************************)
EXTENDS Integers, Sequences, FiniteSets, TLC

Q   == <<"q", 1>>      \* '
BS  == <<"b", 1>>      \* \
NL  == <<"N", 1>>      \* line feed
SP  == <<"s", 1>>      \* space
COL == <<":", 1>>
COM == <<",", 1>>
LBR == <<"{", 1>>
RBR == <<"}", 1>>
LN  == <<"n", 1>>      \* the letter n

Words == {"say", "text", "response", "completion_result"}
Letters == {"x", "n"}
Digits == {"7"}
WhitespaceToks == {"s", "N"}

W(w) == <<w, 1>>
X(n) == <<"x", n>>

Width(t) ==
  CASE t = "say" -> 3
    [] t = "text" -> 4
    [] t = "response" -> 8
    [] t = "completion_result" -> 17
    [] t = "Task completed (no output)" -> 26
    [] OTHER -> 1

RECURSIVE StrLen(_)
StrLen(s) == IF s = <<>> THEN 0 ELSE Width(s[1][1]) * s[1][2] + StrLen(Tail(s))

Tok(s, i) == IF i >= 1 /\ i <= Len(s) THEN s[i][1] ELSE "EOF"

Min(S) == CHOOSE m \in S : \A o \in S : m <= o
Max(S) == CHOOSE m \in S : \A o \in S : m >= o

(***************************************************************************)
(* String.prototype.substring(0, k).                                       *)
(***************************************************************************)
RECURSIVE Substring0(_, _)
Substring0(s, k) ==
  IF s = <<>> \/ k <= 0 THEN <<>>
  ELSE LET w == Width(s[1][1])
           full == w * s[1][2]
       IN IF full <= k THEN <<s[1]>> \o Substring0(Tail(s), k - full)
          ELSE IF k \div w = 0 THEN <<>>
          ELSE << <<s[1][1], k \div w>> >>

(***************************************************************************)
(* Values that may throw.                                                   *)
(***************************************************************************)
Ok(v) == [threw |-> FALSE, value |-> v, message |-> "none"]
Throw(m) == [threw |-> TRUE, value |-> <<>>, message |-> m]

(***************************************************************************)
(* sanitizeInput                                                           *)
(***************************************************************************)
MAX_INPUT_LENGTH == 10000

\* mutant: the semicolon let through
InAllowListWithSemicolon(t) ==
  \/ t \in Letters \/ t \in Words
  \/ t \in Digits
  \/ t \in WhitespaceToks
  \/ t \in {"-", "_", ".", ",", "@", "/", ";"}

\* the complement of the character class [^a-zA-Z0-9\s\-_.,@/]
InAllowList(t) ==
  \/ t \in Letters \/ t \in Words
  \/ t \in Digits
  \/ t \in WhitespaceToks
  \/ t \in {"-", "_", ".", ",", "@", "/"}

\* mutant: a disallowed character replaced by two spaces instead of removed
RECURSIVE StripDisallowedSpaced(_)
StripDisallowedSpaced(s) ==
  IF s = <<>> THEN <<>>
  ELSE IF InAllowList(s[1][1]) THEN <<s[1]>> \o StripDisallowedSpaced(Tail(s))
  ELSE << <<"s", 2 * s[1][2]>> >> \o StripDisallowedSpaced(Tail(s))

\* input.replace(/[^a-zA-Z0-9\s\-_.,@/]/g, '')
RECURSIVE StripDisallowed(_)
StripDisallowed(s) ==
  IF s = <<>> THEN <<>>
  ELSE IF InAllowList(s[1][1]) THEN <<s[1]>> \o StripDisallowed(Tail(s))
  ELSE StripDisallowed(Tail(s))

\* mutant: the ceiling off by one
ExceedsMaxLengthOffByOne(s) == StrLen(s) > MAX_INPUT_LENGTH + 1

ExceedsMaxLength(s) == StrLen(s) > MAX_INPUT_LENGTH

sanitizeInput(input) ==
  IF input.type # "string" THEN Throw("[AgentMesh] Invalid input type")
  ELSE IF ExceedsMaxLength(input.s) THEN Throw("[AgentMesh] Input exceeds maximum length")
  ELSE Ok(StripDisallowed(input.s))

(***************************************************************************)
(* Regular-expression pieces shared by OUTPUT_REGEX.  A position is an     *)
(* index into the cell sequence; 0 means 'no match'.                       *)
(***************************************************************************)
\* the literal cells lit at position i: the position after them, or 0
Lit(s, i, lit) ==
  IF i >= 1 /\ i + Len(lit) - 1 <= Len(s) /\ SubSeq(s, i, i + Len(lit) - 1) = lit
  THEN i + Len(lit) ELSE 0

\* \s* from position i (greedy; what follows it is never whitespace)
RECURSIVE SkipWs(_, _)
SkipWs(s, i) == IF Tok(s, i) \in WhitespaceToks THEN SkipWs(s, i + 1) ELSE i

\* 'key'\s*:\s*'  at position i: the position after the opening quote, or 0
KeyColonQuote(s, i, key) ==
  LET a == Lit(s, i, <<Q, W(key), Q>>)
      b == IF a = 0 THEN 0 ELSE Lit(s, SkipWs(s, a), <<COL>>)
  IN IF b = 0 THEN 0 ELSE Lit(s, SkipWs(s, b), <<Q>>)

\* 'say'\s*:\s*'kind'  at position i: the position after it, or 0
SayKind(s, i, kind) ==
  LET a == KeyColonQuote(s, i, "say")
  IN IF a = 0 THEN 0 ELSE Lit(s, a, <<W(kind), Q>>)

\* [^']+ from position a: the last position of the run (a - 1 when it is empty)
RECURSIVE NonQuoteEnd(_, _)
NonQuoteEnd(s, a) ==
  IF a <= Len(s) /\ Tok(s, a) # "q" THEN NonQuoteEnd(s, a + 1) ELSE a - 1

\* 'text'\s*:\s*'([^']+)'  at position k: the capture's bounds and the match end
NoField == [ok |-> FALSE, from |-> 0, to |-> 0, end |-> 0]
TextField(s, k) ==
  LET a == KeyColonQuote(s, k, "text")
      b == IF a = 0 THEN 0 ELSE NonQuoteEnd(s, a)
  IN IF a # 0 /\ b >= a /\ Tok(s, b + 1) = "q"
     THEN [ok |-> TRUE, from |-> a, to |-> b, end |-> b + 2]
     ELSE NoField

\* [^}]* from position j can end before any position of j .. the first '}'
RECURSIVE NoBraceEnd(_, _)
NoBraceEnd(s, j) ==
  IF j <= Len(s) /\ Tok(s, j) # "}" THEN NoBraceEnd(s, j + 1) ELSE j

FieldStarts(s, j) == {k \in j..NoBraceEnd(s, j) : TextField(s, k).ok}

NoMatch == [matched |-> FALSE, group |-> <<>>, start |-> 0, end |-> 0]
Matched(s, i, f) ==
  [matched |-> TRUE, group |-> SubSeq(s, f.from, f.to), start |-> i, end |-> f.end]

(***************************************************************************)
(* OUTPUT_REGEX.COMPLETION                                                 *)
(*   /'say'\s*:\s*'completion_result'[^}]*'text'\s*:\s*'([^']+)'/          *)
(* leftmost start; [^}]* is greedy, so the last 'text' field it can reach. *)
(***************************************************************************)
CompletionAt(s, i) ==
  LET j == SayKind(s, i, "completion_result")
  IN IF j = 0 \/ FieldStarts(s, j) = {} THEN NoMatch
     ELSE Matched(s, i, TextField(s, Max(FieldStarts(s, j))))

COMPLETION(s) ==
  LET starts == {i \in 1..Len(s) : CompletionAt(s, i).matched}
  IN IF starts = {} THEN NoMatch ELSE CompletionAt(s, Min(starts))

(***************************************************************************)
(* OUTPUT_REGEX.PLAN_MODE:  'response' \s* : \s* ' GROUP '  where GROUP is  *)
(* any number of: a character other than ' and \, or a \ and one more      *)
(* character that is no line terminator.                                   *)
(***************************************************************************)
\* the group of PLAN_MODE from position p: the position of the closing quote, or 0
RECURSIVE PlanBodyEnd(_, _)
PlanBodyEnd(s, p) ==
  IF p > Len(s) THEN 0
  ELSE IF Tok(s, p) = "q" THEN p
  ELSE IF Tok(s, p) = "b"
       THEN IF p + 1 <= Len(s) /\ Tok(s, p + 1) # "N" THEN PlanBodyEnd(s, p + 2) ELSE 0
  ELSE PlanBodyEnd(s, p + 1)

PlanAt(s, i) ==
  LET a == KeyColonQuote(s, i, "response")
      e == IF a = 0 THEN 0 ELSE PlanBodyEnd(s, a)
  IN IF e = 0 THEN NoMatch
     ELSE [matched |-> TRUE, group |-> SubSeq(s, a, e - 1), start |-> i, end |-> e + 1]

PLAN_MODE(s) ==
  LET starts == {i \in 1..Len(s) : PlanAt(s, i).matched}
  IN IF starts = {} THEN NoMatch ELSE PlanAt(s, Min(starts))

(***************************************************************************)
(* OUTPUT_REGEX.TEXT_RESPONSE                                              *)
(*   /'say'\s*:\s*'text'[^}]*?'text'\s*:\s*'([^']+)'/g                     *)
(* stdout.match of a global expression: every match, left to right, each   *)
(* search resuming where the previous match ended; [^}]*? is lazy, so the  *)
(* first 'text' field it can reach.  The result is the matched substrings. *)
(***************************************************************************)
TextAt(s, i) ==
  LET j == SayKind(s, i, "text")
  IN IF j = 0 \/ FieldStarts(s, j) = {} THEN NoMatch
     ELSE Matched(s, i, TextField(s, Min(FieldStarts(s, j))))

RECURSIVE TextMatchesFrom(_, _)
TextMatchesFrom(s, pos) ==
  LET starts == {i \in pos..Len(s) : TextAt(s, i).matched}
  IN IF starts = {} THEN <<>>
     ELSE LET m == TextAt(s, Min(starts))
          IN <<SubSeq(s, m.start, m.end - 1)>> \o TextMatchesFrom(s, m.end)

TEXT_RESPONSE(s) == TextMatchesFrom(s, 1)

\* m.match(/'text'\s*:\s*'([^']+)'/): group 1 of the leftmost match, else ''
InnerText(m) ==
  LET starts == {k \in 1..Len(m) : TextField(m, k).ok}
  IN IF starts = {} THEN <<>>
     ELSE LET f == TextField(m, Min(starts)) IN SubSeq(m, f.from, f.to)

(***************************************************************************)
(* The unescaping replaces:  .replace(/\\n/g, '\n')  .replace(/\\'/g, ''') *)
(* .replace(/\\\\/g, '\\').  Each scans left to right and resumes after    *)
(* the pair it replaced.                                                   *)
(***************************************************************************)
RECURSIVE ReplacePair(_, _, _)
ReplacePair(s, second, by) ==
  IF s = <<>> THEN <<>>
  ELSE IF Len(s) >= 2 /\ s[1] = BS /\ s[2][1] = second
       THEN IF s[2][2] = 1 THEN <<by>> \o ReplacePair(SubSeq(s, 3, Len(s)), second, by)
            ELSE <<by, <<second, s[2][2] - 1>> >> \o ReplacePair(SubSeq(s, 3, Len(s)), second, by)
  ELSE <<s[1]>> \o ReplacePair(Tail(s), second, by)

UnescapeNewline(s) == ReplacePair(s, "n", NL)
UnescapeQuote(s) == ReplacePair(s, "q", Q)
UnescapeBackslash(s) == ReplacePair(s, "b", BS)

(***************************************************************************)
(* Output extraction of runClineTask (the code after the await).           *)
(***************************************************************************)
NO_OUTPUT == << <<"Task completed (no output)", 1>> >>
MIN_TEXT_LENGTH == 50
RAW_LIMIT == 2000

RECURSIVE MapInnerText(_)
MapInnerText(ms) ==
  IF ms = <<>> THEN <<>> ELSE <<InnerText(ms[1])>> \o MapInnerText(Tail(ms))

LongEnough(t) == StrLen(t) > MIN_TEXT_LENGTH

\* textMatches.map(...).filter(t => t.length > 50)
QualifyingTexts(textMatches) == SelectSeq(MapInnerText(textMatches), LongEnough)

\* texts.sort((a, b) => b.length - a.length)[0]: the sort is stable, so the
\* first of the longest
LongestText(texts) ==
  texts[Min({i \in 1..Len(texts) :
               \A j \in 1..Len(texts) : StrLen(texts[i]) >= StrLen(texts[j])})]

UnescapeCompletion(g) == UnescapeQuote(UnescapeNewline(g))
UnescapePlan(g) == UnescapeBackslash(UnescapeQuote(UnescapeNewline(g)))
UnescapeText(g) == UnescapeQuote(UnescapeNewline(g))

\* the catch of the inner try: stdout.substring(0, 2000) + '...' when longer
RawFallback(stdout) ==
  Substring0(stdout, RAW_LIMIT)
    \o (IF StrLen(stdout) > RAW_LIMIT THEN << <<".", 3>> >> ELSE <<>>)

\* let output = stdout || 'Task completed (no output)'
InitialOutput(stdout) == IF stdout = <<>> THEN NO_OUTPUT ELSE stdout

TextTier(stdout) ==
  LET textMatches == TEXT_RESPONSE(stdout)
      texts == QualifyingTexts(textMatches)
  IN IF Len(textMatches) > 0 /\ Len(texts) > 0
     THEN [tier |-> "text", output |-> UnescapeText(LongestText(texts))]
     ELSE [tier |-> "raw", output |-> InitialOutput(stdout)]

PlanTier(stdout) ==
  LET planMatch == PLAN_MODE(stdout)
  IN IF planMatch.matched
     THEN [tier |-> "plan", output |-> UnescapePlan(planMatch.group)]
     ELSE TextTier(stdout)

\* mutant: the plan response looked for before the completion result
ExtractOutputPlanFirst(stdout, matchThrows) ==
  IF matchThrows THEN [tier |-> "caught", output |-> RawFallback(stdout)]
  ELSE LET planMatch == PLAN_MODE(stdout)
           completionMatch == COMPLETION(stdout)
       IN IF planMatch.matched
          THEN [tier |-> "plan", output |-> UnescapePlan(planMatch.group)]
          ELSE IF completionMatch.matched
          THEN [tier |-> "completion", output |-> UnescapeCompletion(completionMatch.group)]
          ELSE TextTier(stdout)

\* matchThrows: String.prototype.match raised inside the inner try
ExtractOutput(stdout, matchThrows) ==
  IF matchThrows THEN [tier |-> "caught", output |-> RawFallback(stdout)]
  ELSE LET completionMatch == COMPLETION(stdout)
       IN IF completionMatch.matched
          THEN [tier |-> "completion", output |-> UnescapeCompletion(completionMatch.group)]
          ELSE PlanTier(stdout)

(***************************************************************************)
(* Paths: [abs, segs], the segments between the slashes.  path.normalize   *)
(* and path.resolve of Node (POSIX).                                       *)
(***************************************************************************)
EmptyPath == [abs |-> FALSE, segs |-> <<>>]
AbsPath(segs) == [abs |-> TRUE, segs |-> segs]
RelPath(segs) == [abs |-> FALSE, segs |-> segs]

PROCESS_CWD == <<"work">>
HOME == <<"home", "u">>

RECURSIVE NormSegs(_, _, _)
NormSegs(segs, abs, acc) ==
  IF segs = <<>> THEN acc
  ELSE LET h == Head(segs)
           t == Tail(segs)
       IN IF h = "." THEN NormSegs(t, abs, acc)
          ELSE IF h = ".."
               THEN IF acc # <<>> /\ acc[Len(acc)] # ".."
                    THEN NormSegs(t, abs, SubSeq(acc, 1, Len(acc) - 1))
                    ELSE IF abs THEN NormSegs(t, abs, acc)
                    ELSE NormSegs(t, abs, Append(acc, ".."))
          ELSE NormSegs(t, abs, Append(acc, h))

normalize(p) ==
  LET n == NormSegs(p.segs, p.abs, <<>>)
  IN [abs |-> p.abs, segs |-> IF n = <<>> /\ ~p.abs THEN <<".">> ELSE n]

resolve(p) ==
  IF p.abs THEN AbsPath(NormSegs(p.segs, TRUE, <<>>))
  ELSE AbsPath(NormSegs(PROCESS_CWD \o p.segs, TRUE, <<>>))

\* String.prototype.includes('..') on the path text
DotDotSegs == {"..", "a..b"}
IncludesDotDot(p) == \E i \in 1..Len(p.segs) : p.segs[i] \in DotDotSegs

existsSync(files, p) == p.segs \in files

validatePath(files, path) ==
  LET resolvedPath == resolve(path)
      normalizedPath == normalize(path)
  IN IF IncludesDotDot(normalizedPath) \/ IncludesDotDot(resolvedPath) THEN FALSE
     ELSE existsSync(files, resolvedPath)

(***************************************************************************)
(* NODE_VERSION: process.env.NODE_VERSION when it matches ^v\d+\.\d+\.\d+$ *)
(***************************************************************************)
DEFAULT_NODE_VERSION == "v23.11.0"

VersionChars(v) ==
  CASE v = "v20.1.0" -> <<"v", "7", "7", ".", "7", ".", "7">>
    [] v = "v23.11.0" -> <<"v", "7", "7", ".", "7", "7", ".", "7">>
    [] v = "20.1.0" -> <<"7", "7", ".", "7", ".", "7">>
    [] v = "v20.1" -> <<"v", "7", "7", ".", "7">>
    [] v = "v1.2.3/../../x" -> <<"v", "7", ".", "7", ".", "7", "/", ".", ".", "/", ".", ".", "/", "x">>
    [] OTHER -> <<>>

RECURSIVE DigitsEnd(_, _)
DigitsEnd(c, i) == IF i <= Len(c) /\ c[i] \in Digits THEN DigitsEnd(c, i + 1) ELSE i

\* \d+ then a following literal (or the end of the text when lit is 'EOF')
DigitsThen(c, i, lit) ==
  LET e == IF i = 0 THEN 0 ELSE DigitsEnd(c, i)
  IN IF i = 0 \/ e = i THEN 0
     ELSE IF lit = "EOF" THEN (IF e = Len(c) + 1 THEN e ELSE 0)
     ELSE IF e <= Len(c) /\ c[e] = lit THEN e + 1 ELSE 0

\* mutant: the pattern without its end anchor, ^v\d+\.\d+\.\d+
VersionFormatOkUnanchored(c) ==
  /\ Len(c) >= 1 /\ c[1] = "v"
  /\ LET i == DigitsThen(c, DigitsThen(c, 2, "."), ".")
     IN i # 0 /\ DigitsEnd(c, i) > i

VersionFormatOk(c) ==
  /\ Len(c) >= 1 /\ c[1] = "v"
  /\ DigitsThen(c, DigitsThen(c, DigitsThen(c, 2, "."), "."), "EOF") # 0

NodeVersionOf(version) ==
  IF version = "" THEN DEFAULT_NODE_VERSION
  ELSE IF ~VersionFormatOk(VersionChars(version)) THEN DEFAULT_NODE_VERSION
  ELSE version

NvmPath(nodeVersion) ==
  AbsPath(HOME \o <<".nvm", "versions", "node", nodeVersion, "bin", "cline">>)

\* const CLINE_PATH = process.env.CLINE_PATH || 'cline'
ClinePathOf(override) == IF override # EmptyPath THEN override ELSE RelPath(<<"cline">>)

\* isClineInstalled: execa(CLINE_PATH, ['version']), and when that rejects
\* execa(nvmPath, ['version']); runs is the set of files execa can run
isClineInstalled(runs, clinePath, nodeVersion) ==
  IF clinePath \in runs THEN [installed |-> TRUE, found |-> {clinePath}]
  ELSE IF NvmPath(nodeVersion) \in runs THEN [installed |-> TRUE, found |-> {NvmPath(nodeVersion)}]
  ELSE [installed |-> FALSE, found |-> {}]

\* getClineVersion: the trimmed stdout of the same two attempts, or 'unknown'
getClineVersion(runs, clinePath, nodeVersion) ==
  IF clinePath \in runs \/ NvmPath(nodeVersion) \in runs
  THEN << <<"7", 1>>, <<".", 1>>, <<"7", 1>> >>
  ELSE << <<"unknown", 1>> >>

\* mutant: the override returned without validatePath
getClinePathOverrideUnchecked(e, nodeVersion, files) ==
  IF e.CLINE_PATH # EmptyPath THEN e.CLINE_PATH
  ELSE IF validatePath(files, NvmPath(nodeVersion)) THEN NvmPath(nodeVersion)
  ELSE RelPath(<<"cline">>)

getClinePath(e, nodeVersion, files) ==
  IF e.CLINE_PATH # EmptyPath /\ validatePath(files, e.CLINE_PATH) THEN e.CLINE_PATH
  ELSE IF validatePath(files, NvmPath(nodeVersion)) THEN NvmPath(nodeVersion)
  ELSE RelPath(<<"cline">>)

(***************************************************************************)
(* runClineTask: the synchronous part up to the call of execa, and the two *)
(* continuations of the await.                                             *)
(***************************************************************************)
DEFAULT_TIMEOUT == 300000
UNDEFINED == << <<"undefined", 0>> >>

JsString(str) == [type |-> "string", s |-> str]
JsUndefined == [type |-> "undefined", s |-> <<>>]

\* !prompt || typeof prompt !== 'string'
InvalidPrompt(prompt) == prompt.type # "string" \/ prompt.s = <<>>

\* mutant: -y only when yolo is true
YoloFlagOnlyWhenTrue(opts) == IF opts.yolo = "true" THEN <<"-y">> ELSE <<>>

YoloFlag(opts) == IF opts.yolo # "false" THEN <<"-y">> ELSE <<>>
ModeFlag(opts) == IF opts.mode # "unset" THEN <<"-m", opts.mode>> ELSE <<>>

\* args: the flags, then the sanitized prompt as the last element
BuildArgs(opts, sanitizedPrompt) ==
  [flags |-> YoloFlag(opts) \o ModeFlag(opts) \o <<"--output-format", "json", "--oneshot">>,
   prompt |-> sanitizedPrompt]

\* cwd: options.cwd || process.cwd()
ExecaCwd(opts) == IF opts.cwd # EmptyPath THEN opts.cwd ELSE AbsPath(PROCESS_CWD)
\* timeout: options.timeout || DEFAULT_TIMEOUT
ExecaTimeout(opts) == IF opts.timeout # 0 THEN opts.timeout ELSE DEFAULT_TIMEOUT

NoRequest == [file |-> EmptyPath, args |-> [flags |-> <<>>, prompt |-> <<>>],
              cwd |-> EmptyPath, timeout |-> 0]

\* lines 287-317: a throw, or the request handed to execa
Preflight(prompt, opts, e, nodeVersion, files) ==
  IF InvalidPrompt(prompt) THEN Throw("Invalid prompt parameter")
  ELSE LET sanitized == sanitizeInput(prompt)
       IN IF sanitized.threw THEN sanitized
          ELSE Ok([file |-> getClinePath(e, nodeVersion, files),
                   args |-> BuildArgs(opts, sanitized.value),
                   cwd |-> ExecaCwd(opts),
                   timeout |-> ExecaTimeout(opts)])

NoResult == [kind |-> "none", success |-> FALSE, output |-> <<>>, error |-> UNDEFINED]
Thrown(m) == [kind |-> "thrown", success |-> FALSE, output |-> <<>>,
              error |-> << <<m, 1>> >>]
Returned(success, output, error) ==
  [kind |-> "returned", success |-> success, output |-> output, error |-> error]

\* mutant: output on stderr counted as a failure
OnResolvedStderrFails(stdout, stderr, matchThrows) ==
  Returned(stderr = <<>>, ExtractOutput(stdout, matchThrows).output,
           IF stderr # <<>> THEN stderr ELSE UNDEFINED)

\* lines 319-360: execa resolved with {stdout, stderr}
OnResolved(stdout, stderr, matchThrows) ==
  Returned(TRUE, ExtractOutput(stdout, matchThrows).output,
           IF stderr # <<>> THEN stderr ELSE UNDEFINED)

\* String(v ?? '')
StringOrEmpty(v) == IF v = UNDEFINED THEN <<>> ELSE v

\* mutant: the operands swapped, errorMessage || stderrStr
DiagnosticMessageFirst(stderrStr, errorMessage) ==
  IF errorMessage # <<>> THEN errorMessage ELSE stderrStr

\* stderrStr || errorMessage
Diagnostic(stderrStr, errorMessage) == IF stderrStr # <<>> THEN stderrStr ELSE errorMessage

\* mutant: the catch rethrows
OnRejectedRethrows(err) == Thrown("rethrown")

\* lines 361-392: execa rejected with err
OnRejected(err) ==
  LET errorMessage == IF err.isError THEN err.message ELSE err.text
      stdoutStr == IF err.isError /\ err.hasStdout THEN StringOrEmpty(err.stdout) ELSE <<>>
      stderrStr == IF err.isError /\ err.hasStderr THEN StringOrEmpty(err.stderr) ELSE <<>>
  IN Returned(FALSE, stdoutStr, Diagnostic(stderrStr, errorMessage))

(***************************************************************************)
(* What execa rejects with.                                                *)
(***************************************************************************)
TIMEOUT_MESSAGE == << <<"Command timed out after N milliseconds", 1>> >>
EXIT_MESSAGE == << <<"Command failed with exit code N", 1>> >>
SPAWN_MESSAGE == << <<"Command failed with ENOENT", 1>> >>

ExecaError(message, stdout, stderr) ==
  [isError |-> TRUE, message |-> message, text |-> message,
   hasStdout |-> TRUE, stdout |-> stdout, hasStderr |-> TRUE, stderr |-> stderr]

\* no output was captured; older execa leaves the fields undefined
SpawnErrors == {ExecaError(SPAWN_MESSAGE, <<>>, <<>>),
                ExecaError(SPAWN_MESSAGE, UNDEFINED, UNDEFINED)}

(***************************************************************************)
(* The agent's output: a stream of JSON events.  A piece is one event (or  *)
(* a stretch of plain output) carrying a text; the stream holds the text   *)
(* escaped as JSON does: line feed, quote and backslash behind a backslash.*)
(***************************************************************************)
RECURSIVE Escape(_)
Escape(t) ==
  IF t = <<>> THEN <<>>
  ELSE (CASE t[1] = NL -> <<BS, LN>>
          [] t[1] = Q -> <<BS, Q>>
          [] t[1] = BS -> <<BS, BS>>
          [] OTHER -> <<t[1]>>) \o Escape(Tail(t))

Sep(spaced) == IF spaced THEN <<SP>> ELSE <<>>
Field(key, value, spaced) == <<Q, W(key), Q, COL>> \o Sep(spaced) \o <<Q>> \o value \o <<Q>>

Render(piece) ==
  CASE piece.kind = "completion" ->
         <<LBR>> \o Field("say", <<W("completion_result")>>, piece.spaced) \o <<COM>>
           \o Sep(piece.spaced) \o Field("text", Escape(piece.text), piece.spaced) \o <<RBR>>
    [] piece.kind = "plan" ->
         <<LBR>> \o Field("response", Escape(piece.text), piece.spaced) \o <<RBR>>
    [] piece.kind = "text" ->
         <<LBR>> \o Field("say", <<W("text")>>, piece.spaced) \o <<COM>>
           \o Sep(piece.spaced) \o Field("text", Escape(piece.text), piece.spaced) \o <<RBR>>
    [] OTHER -> piece.text

RECURSIVE RenderAll(_)
RenderAll(ps) == IF ps = <<>> THEN <<>> ELSE Render(ps[1]) \o RenderAll(Tail(ps))

Piece(kind, text, spaced) == [kind |-> kind, text |-> text, spaced |-> spaced]

TShort == <<X(3)>>
T50 == <<X(50)>>
T51 == <<X(51)>>
T90 == <<X(90)>>
TNewline == <<X(60), NL, X(2)>>
TQuote == <<X(60), Q, X(5)>>
TQuoteBackslash == <<X(1), Q, X(1), BS, X(1)>>
TBackslashN == <<X(1), BS, LN>>
TLongRaw == <<X(3500)>>

Pieces ==
  {Piece("completion", t, FALSE) : t \in {TShort, TNewline, TQuoteBackslash, <<>>}}
  \cup {Piece("plan", t, FALSE) : t \in {TShort, TQuote, TBackslashN, <<>>}}
  \cup {Piece("text", t, FALSE) : t \in {TShort, T50, T51, T90, TQuote, TNewline}}
  \cup {Piece(k, TShort, TRUE) : k \in {"completion", "plan", "text"}}
  \cup {Piece("noise", t, FALSE) : t \in {TShort, TLongRaw}}

MaxPieces == 2
PieceSeqs == UNION {[1..n -> Pieces] : n \in 0..MaxPieces}

PieceSeqsSmall ==
  {<<>>, <<Piece("noise", TShort, FALSE)>>, <<Piece("noise", TLongRaw, FALSE)>>,
   <<Piece("completion", TShort, FALSE)>>}

Stderrs == {<<>>, << <<"warning", 1>> >>}

(***************************************************************************)
(* The callers' inputs.                                                    *)
(***************************************************************************)
PromptCells ==
  {X(1), X(9999), <<";", 1>>, <<";", 10000>>, Q, BS, SP, <<"@", 1>>, <<"/", 1>>, <<"7", 1>>}

MaxPromptCells == 2
AllPrompts ==
  {JsUndefined} \cup {JsString(c) : c \in UNION {[1..n -> PromptCells] : n \in 0..MaxPromptCells}}

Prompts ==
  {JsUndefined, JsString(<<>>), JsString(<<X(3)>>), JsString(<<X(2), <<";", 1>>, X(1)>>),
   JsString(<< <<";", 5>> >>), JsString(<<X(10000)>>), JsString(<<X(10001)>>),
   JsString(<< <<";", 10001>> >>), JsString(<<X(9999), <<";", 1>>, X(1)>>)}

CwdValues ==
  {EmptyPath, AbsPath(<<"work", "proj">>), AbsPath(<<"nope">>),
   RelPath(<<"..", "outside">>), AbsPath(<<"work", "..", "etc">>), RelPath(<<"..", "gone">>)}

OptionSets ==
  [yolo : {"unset", "true", "false"}, mode : {"unset", "act", "plan"},
   cwd : CwdValues, timeout : {0, 1000}]

DefaultOptions == [yolo |-> "unset", mode |-> "unset", cwd |-> EmptyPath, timeout |-> 0]

FsBase ==
  {<<"work">>, <<"work", "proj">>, <<"outside">>, <<"etc">>, <<"opt", "cline">>, <<"cline">>}

FileSystems == {FsBase, FsBase \cup {NvmPath(DEFAULT_NODE_VERSION).segs}}

Envs ==
  {[CLINE_PATH |-> EmptyPath, NODE_VERSION |-> ""],
   [CLINE_PATH |-> AbsPath(<<"opt", "cline">>), NODE_VERSION |-> "v20.1.0"],
   [CLINE_PATH |-> RelPath(<<"..", "cline">>), NODE_VERSION |-> "20.1.0"]}

(***************************************************************************)
(* State.                                                                  *)
(***************************************************************************)
VARIABLES
  env,          \* process.env: CLINE_PATH, NODE_VERSION
  files,        \* the paths that exist on the filesystem
  NODE_VERSION, \* the module constant, computed when the module loads
  CLINE_PATH,   \* the module constant of the status functions, computed at load
  pc,           \* idle | awaiting (execa called) | running (child alive) | done
  prompt,       \* the call's prompt argument
  options,      \* the call's options argument
  request,      \* what the call handed to execa
  execaCalls,   \* calls of execa made by the current call
  spawned,      \* child processes started for the current call
  proc,         \* how the child ended and what was captured from it
  tier,         \* which branch of the extraction set output
  result,       \* what the call returned or threw
  lastIndex,    \* OUTPUT_REGEX.TEXT_RESPONSE.lastIndex (the pattern has the g flag)
  peer,         \* the frame of a second call, suspended at its await
  tool,         \* the tool handler that calls the runner
  statusReport, \* what cline_status last reported
  app           \* the desktop app: the state cells of its App component

vars == <<env, files, NODE_VERSION, CLINE_PATH, pc, prompt, options, request, execaCalls,
          spawned, proc, tier, result, lastIndex, peer, tool, statusReport, app>>

NoProc == [kind |-> "none", pieces |-> <<>>, stdout |-> <<>>, stderr |-> <<>>]

\* a call's frame: its arguments, its locals and where it stands
Frame(fpc, fprompt, foptions, frequest, fexecaCalls, fspawned, fproc, ftier, fresult) ==
  [pc |-> fpc, prompt |-> fprompt, options |-> foptions, request |-> frequest,
   execaCalls |-> fexecaCalls, spawned |-> fspawned, proc |-> fproc, tier |-> ftier,
   result |-> fresult]

NoFrame == Frame("idle", JsUndefined, DefaultOptions, NoRequest, 0, 0, NoProc, "none", NoResult)

\* cline_status has not been called
NoReport == [installed |-> FALSE, found |-> {}, message |-> <<>>]

\* the desktop app has mounted: its useState cells, and the invocations of the
\* backend it awaits (useEffect has called checkClineStatus once)
InitialApp ==
  [serverStatus |-> "stopped", clineStatus |-> "unknown", selectedTool |-> "null",
   toolOutput |-> "", isExecuting |-> FALSE,
   starting |-> 0, stopping |-> 0, checking |-> 1, executing |-> 0]

\* no handler is running
NoTool ==
  [name |-> "none", pc |-> "idle", steps |-> <<>>, target |-> <<>>,
   workingDirectory |-> EmptyPath, i |-> 0, stopped |-> FALSE,
   invocations |-> 0, inFlight |-> 0, outcomes |-> <<>>, last |-> NoResult,
   autoCommit |-> FALSE, createPR |-> FALSE, message |-> <<>>,
   dryRun |-> "unset", action |-> "none", summary |-> {}]

\* the module has been loaded and nothing has been called
InitShared ==
  /\ lastIndex = 0
  /\ peer = NoFrame
  /\ tool = NoTool
  /\ statusReport = NoReport
  /\ app = InitialApp

InitCall ==
  /\ pc = "idle"
  /\ prompt = JsUndefined
  /\ options = DefaultOptions
  /\ request = NoRequest
  /\ execaCalls = 0
  /\ spawned = 0
  /\ proc = NoProc
  /\ tier = "none"
  /\ result = NoResult

Init ==
  /\ env \in Envs
  /\ files \in FileSystems
  /\ NODE_VERSION = NodeVersionOf(env.NODE_VERSION)
  /\ CLINE_PATH = ClinePathOf(env.CLINE_PATH)
  /\ InitCall
  /\ InitShared

InitOne ==
  /\ env = [CLINE_PATH |-> EmptyPath, NODE_VERSION |-> ""]
  /\ files = FsBase
  /\ NODE_VERSION = NodeVersionOf(env.NODE_VERSION)
  /\ CLINE_PATH = ClinePathOf(env.CLINE_PATH)
  /\ InitCall
  /\ InitShared

\* runClineTask(p, o): the code up to the await
Invoke(P, O) ==
  /\ pc = "idle"
  /\ \E p \in P, o \in O :
       LET pre == Preflight(p, o, env, NODE_VERSION, files)
       IN /\ prompt' = p
          /\ options' = o
          /\ IF pre.threw
             THEN /\ pc' = "done"
                  /\ result' = Thrown(pre.message)
                  /\ request' = NoRequest
                  /\ execaCalls' = 0
             ELSE /\ pc' = "awaiting"
                  /\ result' = NoResult
                  /\ request' = pre.value
                  /\ execaCalls' = 1
  /\ spawned' = 0
  /\ proc' = NoProc
  /\ tier' = "none"
  /\ UNCHANGED <<env, files, NODE_VERSION, CLINE_PATH, lastIndex, peer, statusReport, app>>

\* some caller calls runClineTask(p, o)
Call(P, O) == Invoke(P, O) /\ UNCHANGED tool

\* the child process can start: its working directory and its file exist
CanSpawn(req, fs) ==
  /\ existsSync(fs, resolve(req.cwd))
  /\ req.file.abs => existsSync(fs, resolve(req.file))

ProcessStarts ==
  /\ pc = "awaiting"
  /\ CanSpawn(request, files)
  /\ spawned' = spawned + 1
  /\ pc' = "running"
  /\ UNCHANGED <<env, files, NODE_VERSION, CLINE_PATH, prompt, options, request, execaCalls, proc,
                 tier, result, lastIndex, peer, tool, statusReport, app>>

\* mutant: after a timeout or a non-zero exit the child is started again
SettleRetries(kind, pieces, stdout, stderr, t, r) ==
  IF kind \in {"nonzero", "timeout"} /\ spawned < 3
  THEN /\ pc' = "awaiting"
       /\ UNCHANGED <<env, files, NODE_VERSION, CLINE_PATH, prompt, options, request, execaCalls,
                      spawned, proc, tier, result, peer, tool, statusReport, app>>
  ELSE /\ proc' = [kind |-> kind, pieces |-> pieces, stdout |-> stdout, stderr |-> stderr]
       /\ tier' = t
       /\ result' = r
       /\ pc' = "done"
       /\ UNCHANGED <<env, files, NODE_VERSION, CLINE_PATH, prompt, options, request, execaCalls,
                      spawned, peer, tool, statusReport, app>>

Settle(kind, pieces, stdout, stderr, t, r) ==
  /\ proc' = [kind |-> kind, pieces |-> pieces, stdout |-> stdout, stderr |-> stderr]
  /\ tier' = t
  /\ result' = r
  /\ pc' = "done"
  /\ UNCHANGED <<env, files, NODE_VERSION, CLINE_PATH, prompt, options, request, execaCalls, spawned,
                 peer, tool, statusReport, app>>

\* the file cannot be run (or the directory is missing): execa rejects
SpawnFails ==
  /\ pc = "awaiting"
  /\ \E err \in SpawnErrors :
       Settle("spawnfail", <<>>, StringOrEmpty(err.stdout), StringOrEmpty(err.stderr),
              "none", OnRejected(err))
  /\ UNCHANGED lastIndex

\* no match raises in the runs of ExitsZero; MatchFails has the run where one does
MatchThrows == {FALSE}

\* stdout.match(OUTPUT_REGEX.TEXT_RESPONSE), reached when the two patterns
\* before it found nothing: String.prototype.match with a g pattern sets
\* lastIndex to 0 before it searches and leaves it 0
LastIndexAfter(reached, li) == IF reached \in {"text", "raw"} THEN 0 ELSE li

\* mutant: the text events are looked for with one OUTPUT_REGEX.TEXT_RESPONSE.exec(stdout),
\* which starts at lastIndex and leaves lastIndex behind the event it found
ExitsZeroSharedRegex(PS, E) ==
  /\ pc = "running"
  /\ \E ps \in PS, stderr \in E :
       LET stdout == RenderAll(ps)
           starts == {i \in (lastIndex + 1)..Len(stdout) : TextAt(stdout, i).matched}
           found == IF starts = {} THEN <<>>
                    ELSE <<SubSeq(stdout, Min(starts), TextAt(stdout, Min(starts)).end - 1)>>
           texts == QualifyingTexts(found)
           extracted ==
             IF COMPLETION(stdout).matched \/ PLAN_MODE(stdout).matched
             THEN ExtractOutput(stdout, FALSE)
             ELSE IF Len(texts) > 0
             THEN [tier |-> "text", output |-> UnescapeText(LongestText(texts))]
             ELSE [tier |-> "raw", output |-> InitialOutput(stdout)]
       IN /\ Settle("exit0", ps, stdout, stderr, extracted.tier,
                    Returned(TRUE, extracted.output, IF stderr # <<>> THEN stderr ELSE UNDEFINED))
          /\ lastIndex' = IF extracted.tier \in {"completion", "plan"} THEN lastIndex
                          ELSE IF starts = {} THEN 0
                          ELSE TextAt(stdout, Min(starts)).end - 1

ExitsZero(PS, E) ==
  /\ pc = "running"
  /\ \E ps \in PS, stderr \in E, mt \in MatchThrows :
       LET stdout == RenderAll(ps)
       IN /\ Settle("exit0", ps, stdout, stderr, ExtractOutput(stdout, mt).tier,
                    OnResolved(stdout, stderr, mt))
          /\ lastIndex' = LastIndexAfter(tier', lastIndex)

\* the child exited with status zero and a match raised inside the inner try
\* (the regular-expression engine gives up on the output with a RangeError):
\* the catch at lines 351-354 sets the output
MatchFails(PS, E) ==
  /\ pc = "running"
  /\ \E ps \in PS, stderr \in E :
       LET stdout == RenderAll(ps)
       IN /\ Settle("exit0", ps, stdout, stderr, "caught", OnResolved(stdout, stderr, TRUE))
          /\ UNCHANGED lastIndex

ExitsNonZero(PS, E) ==
  /\ pc = "running"
  /\ \E ps \in PS, stderr \in E :
       LET stdout == RenderAll(ps)
       IN Settle("nonzero", ps, stdout, stderr, "none",
                 OnRejected(ExecaError(EXIT_MESSAGE, stdout, stderr)))
  /\ UNCHANGED lastIndex

TimesOut(PS, E) ==
  /\ pc = "running"
  /\ \E ps \in PS, stderr \in E :
       LET stdout == RenderAll(ps)
       IN Settle("timeout", ps, stdout, stderr, "none",
                 OnRejected(ExecaError(TIMEOUT_MESSAGE, stdout, stderr)))
  /\ UNCHANGED lastIndex

\* the caller has taken the result (or the exception); the call's frame is gone
Take ==
  /\ pc = "done"
  /\ pc' = "idle"
  /\ prompt' = JsUndefined
  /\ options' = DefaultOptions
  /\ request' = NoRequest
  /\ execaCalls' = 0
  /\ spawned' = 0
  /\ proc' = NoProc
  /\ tier' = "none"
  /\ result' = NoResult
  /\ UNCHANGED <<env, files, NODE_VERSION, CLINE_PATH, lastIndex, peer, statusReport, app>>

Return == Take /\ UNCHANGED tool

Next ==
  \/ Call(Prompts, OptionSets)
  \/ ProcessStarts
  \/ SpawnFails
  \/ ExitsZero(PieceSeqsSmall, Stderrs)
  \/ ExitsNonZero(PieceSeqsSmall, Stderrs)
  \/ TimesOut(PieceSeqsSmall, Stderrs)
  \/ Return

Spec == Init /\ [][Next]_vars

\* the extraction, over every stream of up to MaxPieces pieces
NextExtract ==
  \/ Call({JsString(<<X(3)>>)}, {DefaultOptions})
  \/ ProcessStarts
  \/ SpawnFails
  \/ ExitsZero(PieceSeqs, {<<>>})
  \/ ExitsNonZero(PieceSeqsSmall, Stderrs)
  \/ TimesOut(PieceSeqsSmall, Stderrs)
  \/ Return

SpecExtract == InitOne /\ [][NextExtract]_vars

\* the extraction in the runs where a match raises
NextMatchFailure ==
  \/ Call({JsString(<<X(3)>>)}, {DefaultOptions})
  \/ ProcessStarts
  \/ SpawnFails
  \/ MatchFails(PieceSeqs, Stderrs)
  \/ ExitsNonZero(PieceSeqsSmall, Stderrs)
  \/ TimesOut(PieceSeqsSmall, Stderrs)
  \/ Return

SpecMatchFailure == InitOne /\ [][NextMatchFailure]_vars

\* the sanitizer, over every prompt of up to MaxPromptCells cells
NextSanitize ==
  \/ Call(AllPrompts, {DefaultOptions})
  \/ ProcessStarts
  \/ SpawnFails
  \/ ExitsZero(PieceSeqsSmall, Stderrs)
  \/ ExitsNonZero(PieceSeqsSmall, Stderrs)
  \/ TimesOut(PieceSeqsSmall, Stderrs)
  \/ Return

SpecSanitize == InitOne /\ [][NextSanitize]_vars

(***************************************************************************)
(* The tool handlers: each builds a prompt, awaits runClineTask and renders *)
(* the result as a message.  agent_workflow does so for each step of a      *)
(* WORKFLOWS entry in turn.  A prompt template is modelled by the lengths   *)
(* of its text before and after the place of the target.                   *)
(***************************************************************************)
Step(name, before, hasTarget, after, mode) ==
  [name |-> name, before |-> before, hasTarget |-> hasTarget, after |-> after, mode |-> mode]

WORKFLOWS(workflow) ==
  CASE workflow = "full-feature" ->
         <<Step("Planning", 43, TRUE, 0, "plan"), Step("Implementation", 45, TRUE, 0, "unset"),
           Step("Testing", 47, TRUE, 0, "unset"), Step("Review", 69, FALSE, 0, "unset")>>
    [] workflow = "bug-fix" ->
         <<Step("Analysis", 40, TRUE, 0, "plan"), Step("Fix", 13, TRUE, 44, "unset"),
           Step("Testing", 55, FALSE, 0, "unset")>>
    [] workflow = "security-audit" ->
         <<Step("Scanning", 28, TRUE, 72, "plan"), Step("Fixing", 47, TRUE, 0, "unset"),
           Step("Verification", 79, FALSE, 0, "unset")>>
    [] workflow = "refactor-deploy" ->
         <<Step("Refactoring", 9, TRUE, 58, "unset"), Step("Testing", 56, FALSE, 0, "unset"),
           Step("Review", 59, FALSE, 0, "unset")>>
    [] OTHER -> <<>>

\* kestra_code_intel: a summary is the set of the keywords it includes (lower
\* case); the empty summary includes none and is falsy
SummaryKeywords == {"security", "critical", "bug", "fix", "review", "pr", "test"}
EmptySummary == {"(empty)"}

\* process-summary: the actions array
RecommendedActions(summary) ==
  (IF "security" \in summary \/ "critical" \in summary THEN <<"security_audit">> ELSE <<>>)
    \o (IF "bug" \in summary \/ "fix" \in summary THEN <<"fix_issues">> ELSE <<>>)
    \o (IF "review" \in summary \/ "pr" \in summary THEN <<"review_code">> ELSE <<>>)
    \o (IF "test" \in summary THEN <<"generate_tests">> ELSE <<>>)

\* execute-decision: actionName and prompt (the prompt by its length), then
\* runClineTask(prompt, { cwd: workingDirectory, mode: 'act' })
ExecuteDecision(summary) ==
  IF "security" \in summary \/ "critical" \in summary
  THEN Step("Security Audit & Fix", 67, FALSE, 0, "act")
  ELSE IF "bug" \in summary THEN Step("Bug Fix", 54, FALSE, 0, "act")
  ELSE IF "review" \in summary \/ "pr" \in summary THEN Step("Code Review", 49, FALSE, 0, "act")
  ELSE Step("Code Analysis", 45, FALSE, 0, "act")

\* the single call of a handler, as a one-step sequence
HandlerSteps(input) ==
  CASE input.name = "agent_workflow" -> WORKFLOWS(input.workflow)
    [] input.name = "code_task" -> <<Step("code_task", 0, TRUE, 0, input.mode)>>
    [] input.name = "review_code" -> <<Step("review_code", 19, TRUE, 267, "unset")>>
    [] input.name = "generate_tests" -> <<Step("generate_tests", 38, TRUE, 523, "unset")>>
    [] input.name = "fix_issues" ->
         IF input.dryRun = "true" THEN <<Step("fix_issues", 32, TRUE, 213, "unset")>>
         ELSE <<Step("fix_issues", 28, TRUE, 184, "unset")>>
    [] input.name = "kestra_code_intel" ->
         IF input.action = "execute-decision" /\ input.summary # EmptySummary
         THEN <<ExecuteDecision(input.summary)>> ELSE <<>>
    [] OTHER -> <<>>

Filler(n) == IF n > 0 THEN <<X(n)>> ELSE <<>>

\* step.prompt.replace('{target}', target)
StepPrompt(step, target) ==
  Filler(step.before) \o (IF step.hasTarget THEN target ELSE <<>>) \o Filler(step.after)

\* { cwd: workingDirectory, mode: step.mode }
StepOptions(step, workingDirectory) ==
  [yolo |-> "unset", mode |-> step.mode, cwd |-> workingDirectory, timeout |-> 0]

\* mutant: fix_issues leaves yolo to the runner's default
FixIssuesOptionsDefaultYolo(dryRun, workingDirectory) ==
  [yolo |-> "unset", mode |-> "unset", cwd |-> workingDirectory, timeout |-> 0]

\* fix_issues: { cwd: workingDirectory, yolo: !dryRun }
FixIssuesOptions(dryRun, workingDirectory) ==
  [yolo |-> IF dryRun = "true" THEN "false" ELSE "true", mode |-> "unset",
   cwd |-> workingDirectory, timeout |-> 0]

\* the options of the handler's call
HandlerOptions(t, step) ==
  IF t.name = "fix_issues" THEN FixIssuesOptions(t.dryRun, t.workingDirectory)
  ELSE StepOptions(step, t.workingDirectory)

Txt(t) == << <<t, 1>> >>

STEP_OUTPUT_LIMIT == 500

\* result.output.substring(0, 500) + (result.output.length > 500 ? '...' : '')
StepOutput(output) ==
  Substring0(output, STEP_OUTPUT_LIMIT)
    \o (IF StrLen(output) > STEP_OUTPUT_LIMIT THEN << <<".", 3>> >> ELSE <<>>)

\* what a handler that makes one call returns
HandlerMessage(name, r) ==
  CASE name = "code_task" ->
         IF r.success THEN Txt("Task completed successfully!") \o r.output
         ELSE Txt("Task failed Error: ") \o r.error \o Txt("Partial output:") \o r.output
    [] name = "review_code" ->
         IF r.success THEN Txt("Code Review Complete") \o r.output
         ELSE Txt("Review failed Error: ") \o r.error
    [] name = "generate_tests" ->
         IF r.success THEN Txt("Tests Generated") \o r.output
         ELSE Txt("Test generation failed Error: ") \o r.error
    [] OTHER -> <<>>

\* what fix_issues returns
FixIssuesMessage(dryRun, r) ==
  IF r.success
  THEN Txt(IF dryRun = "true" THEN "Analysis Complete" ELSE "Fix Complete") \o r.output
  ELSE Txt(IF dryRun = "true" THEN "Analysis failed Error: " ELSE "Fix failed Error: ")
         \o r.error

\* what execute-decision returns
ExecuteDecisionMessage(actionName, r) ==
  IF r.success
  THEN Txt("Kestra AI Decision Executed Action: ") \o Txt(actionName) \o r.output
  ELSE Txt("Execution Failed Action: ") \o Txt(actionName) \o Txt("Error: ") \o r.error
         \o r.output

RECURSIVE ActionList(_)
ActionList(actions) ==
  IF actions = <<>> THEN <<>> ELSE Txt(actions[1]) \o ActionList(Tail(actions))

\* what kestra_code_intel returns without calling the runner
KestraMessage(input) ==
  IF input.summary = EmptySummary THEN Txt("summary is required for ") \o Txt(input.action)
  ELSE IF input.action = "execute-decision" THEN <<>>
  ELSE IF RecommendedActions(input.summary) = <<>> THEN Txt("No immediate actions required")
  ELSE Txt("AI Decision: Actions Required") \o ActionList(RecommendedActions(input.summary))

\* the lines agent_workflow pushes before its loop
WorkflowHeader == Txt("Starting workflow for: ") \o Txt("Steps: ") \o Txt("-----")

StepHeader(step) == Txt("### Step: ") \o Txt(step.name)

\* the lines agent_workflow pushes after its loop
WorkflowTrailer(t) ==
  (IF t.autoCommit THEN Txt("### Git Operations") \o Txt("Auto-commit enabled.") ELSE <<>>)
    \o (IF t.createPR THEN Txt("PR creation enabled.") ELSE <<>>)
    \o Txt("-----") \o Txt("Workflow completed!")

StartTool(input) ==
  [name |-> input.name, pc |-> "loop", steps |-> HandlerSteps(input),
   target |-> input.target, workingDirectory |-> input.workingDirectory,
   i |-> 0, stopped |-> FALSE, invocations |-> 0, inFlight |-> 0, outcomes |-> <<>>,
   last |-> NoResult, autoCommit |-> input.autoCommit, createPR |-> input.createPR,
   message |-> IF input.name = "agent_workflow" THEN WorkflowHeader
               ELSE IF input.name = "kestra_code_intel" THEN KestraMessage(input)
               ELSE <<>>,
   dryRun |-> input.dryRun, action |-> input.action, summary |-> input.summary]

\* an exception of runClineTask leaves the handler through its await
Rejected(t, r) ==
  [t EXCEPT !.pc = "threw", !.inFlight = 0, !.outcomes = Append(@, "threw"), !.last = r]

\* mutant: the loop goes on after a failed step
AfterStepNoBreak(t, r) ==
  IF r.kind = "thrown" THEN Rejected(t, r)
  ELSE [t EXCEPT !.pc = "loop", !.inFlight = 0, !.last = r, !.i = @ + 1,
                 !.outcomes = Append(@, IF r.success THEN "ok" ELSE "failed"),
                 !.message = @ \o Txt(t.steps[t.i + 1].name) \o Txt(" done")]

\* the handler's code from the await to the next call or to the end of its loop
AfterStep(t, r) ==
  IF r.kind = "thrown" THEN Rejected(t, r)
  ELSE IF t.name = "agent_workflow"
  THEN IF r.success
       THEN [t EXCEPT !.pc = "loop", !.inFlight = 0, !.last = r, !.i = @ + 1,
                      !.outcomes = Append(@, "ok"),
                      !.message = @ \o Txt(t.steps[t.i + 1].name) \o Txt(" completed")
                                    \o StepOutput(r.output)]
       ELSE [t EXCEPT !.pc = "loop", !.inFlight = 0, !.last = r, !.stopped = TRUE,
                      !.outcomes = Append(@, "failed"),
                      !.message = @ \o Txt(t.steps[t.i + 1].name) \o Txt(" failed: ")
                                    \o r.error \o Txt("Workflow stopped at step")]
  ELSE [t EXCEPT !.pc = "loop", !.inFlight = 0, !.last = r, !.i = @ + 1,
                 !.outcomes = Append(@, IF r.success THEN "ok" ELSE "failed"),
                 !.message =
                   IF t.name = "fix_issues" THEN FixIssuesMessage(t.dryRun, r)
                   ELSE IF t.name = "kestra_code_intel"
                   THEN ExecuteDecisionMessage(t.steps[t.i + 1].name, r)
                   ELSE HandlerMessage(t.name, r)]

runnerVars == <<env, files, NODE_VERSION, CLINE_PATH, pc, prompt, options, request, execaCalls, spawned,
                proc, tier, result, lastIndex, peer>>

\* a tool is called with its validated arguments
ToolInvoked(Inputs) ==
  /\ tool.pc = "idle"
  /\ pc = "idle"
  /\ \E input \in Inputs : tool' = StartTool(input)
  /\ UNCHANGED <<runnerVars, statusReport, app>>

\* the handler calls runClineTask for its next step and awaits it
StartStep ==
  /\ tool.pc = "loop"
  /\ ~tool.stopped
  /\ tool.i < Len(tool.steps)
  /\ LET step == tool.steps[tool.i + 1]
     IN /\ Invoke({JsString(StepPrompt(step, tool.target))},
                  {HandlerOptions(tool, step)})
        /\ tool' = [tool EXCEPT !.pc = "awaiting", !.invocations = @ + 1, !.inFlight = @ + 1,
                                !.message = IF tool.name = "agent_workflow"
                                            THEN @ \o StepHeader(step) ELSE @]

\* the await is over: the handler has the result (or the exception)
ObserveStep ==
  /\ tool.pc = "awaiting"
  /\ Take
  /\ tool' = AfterStep(tool, result)

\* the loop is over: the handler returns its message
Finish ==
  /\ tool.pc = "loop"
  /\ tool.stopped \/ tool.i = Len(tool.steps)
  /\ tool' = [tool EXCEPT !.pc = "returned",
                          !.message = IF tool.name = "agent_workflow"
                                      THEN @ \o WorkflowTrailer(tool) ELSE @]
  /\ UNCHANGED <<runnerVars, statusReport, app>>

\* the tool call is answered
ToolDone ==
  /\ tool.pc \in {"returned", "threw"}
  /\ tool' = NoTool
  /\ UNCHANGED <<runnerVars, statusReport, app>>

KestraSummaries ==
  {EmptySummary, {}, {"security"}, {"critical", "test"}, {"bug"}, {"fix"}, {"review"},
   {"pr"}, {"test"}, {"security", "bug"}, {"bug", "review", "pr"}, SummaryKeywords}

ToolTargets == {<<X(3)>>, <<X(9950)>>}

ToolInputs ==
  [name : {"agent_workflow"},
   workflow : {"full-feature", "bug-fix", "security-audit", "refactor-deploy"},
   target : ToolTargets, workingDirectory : {EmptyPath}, mode : {"unset"},
   autoCommit : BOOLEAN, createPR : {TRUE},
   dryRun : {"unset"}, action : {"none"}, summary : {{}}]
  \cup
  [name : {"code_task", "review_code", "generate_tests"}, workflow : {"none"},
   target : ToolTargets, workingDirectory : {EmptyPath, AbsPath(<<"work", "proj">>)},
   mode : {"unset", "plan"}, autoCommit : {FALSE}, createPR : {FALSE},
   dryRun : {"unset"}, action : {"none"}, summary : {{}}]
  \cup
  [name : {"fix_issues"}, workflow : {"none"},
   target : ToolTargets, workingDirectory : {EmptyPath, AbsPath(<<"work", "proj">>)},
   mode : {"unset"}, autoCommit : {FALSE}, createPR : {FALSE},
   dryRun : {"unset", "false", "true"}, action : {"none"}, summary : {{}}]
  \cup
  [name : {"kestra_code_intel"}, workflow : {"none"},
   target : {<<>>}, workingDirectory : {EmptyPath},
   mode : {"unset"}, autoCommit : {FALSE}, createPR : {FALSE},
   dryRun : {"unset"}, action : {"process-summary", "execute-decision"},
   summary : KestraSummaries]

NextTools ==
  \/ ToolInvoked(ToolInputs)
  \/ StartStep
  \/ ProcessStarts
  \/ SpawnFails
  \/ ExitsZero({<<>>, <<Piece("completion", TShort, FALSE)>>}, {<<>>})
  \/ ExitsNonZero({<<>>, <<Piece("noise", TShort, FALSE)>>}, Stderrs)
  \/ TimesOut({<<Piece("noise", TShort, FALSE)>>}, {<<>>})
  \/ ObserveStep
  \/ Finish
  \/ ToolDone

SpecTools == InitOne /\ [][NextTools]_vars

(***************************************************************************)
(* Two calls of runClineTask in one process.  The actions above run the    *)
(* code of the call that has the processor; the other call waits at its    *)
(* await with its frame in peer, and the event loop may turn to it at any  *)
(* await.  What the two share is the module: NODE_VERSION, OUTPUT_REGEX.   *)
(***************************************************************************)
CurrentFrame == Frame(pc, prompt, options, request, execaCalls, spawned, proc, tier, result)

\* the event loop turns from one call to the other
ContextSwitch ==
  /\ CurrentFrame # peer
  /\ peer' = CurrentFrame
  /\ pc' = peer.pc
  /\ prompt' = peer.prompt
  /\ options' = peer.options
  /\ request' = peer.request
  /\ execaCalls' = peer.execaCalls
  /\ spawned' = peer.spawned
  /\ proc' = peer.proc
  /\ tier' = peer.tier
  /\ result' = peer.result
  /\ UNCHANGED <<env, files, NODE_VERSION, CLINE_PATH, lastIndex, tool, statusReport, app>>

ConcurrentPrompts == {JsString(<<X(3)>>), JsString(<<X(2), <<";", 1>> >>), JsString(<<>>)}

ConcurrentOptions == {DefaultOptions, [DefaultOptions EXCEPT !.mode = "plan"]}

ConcurrentOutputs ==
  {<<>>, <<Piece("text", T90, FALSE)>>,
   <<Piece("text", T51, FALSE), Piece("text", TNewline, FALSE)>>,
   <<Piece("completion", TShort, FALSE)>>}

NextConcurrent ==
  \/ Call(ConcurrentPrompts, ConcurrentOptions)
  \/ ProcessStarts
  \/ SpawnFails
  \/ ExitsZero(ConcurrentOutputs, {<<>>})
  \/ ExitsNonZero({<<>>, <<Piece("noise", TShort, FALSE)>>}, Stderrs)
  \/ TimesOut({<<Piece("noise", TShort, FALSE)>>}, {<<>>})
  \/ Return
  \/ ContextSwitch

SpecConcurrent == InitOne /\ [][NextConcurrent]_vars

(***************************************************************************)
(* The resolver, over the override paths, the version strings and the      *)
(* filesystems that tell its branches apart.                               *)
(***************************************************************************)
ResolveOverrides ==
  {EmptyPath, AbsPath(<<"opt", "cline">>), AbsPath(<<"opt", "missing">>),
   RelPath(<<"..", "cline">>), AbsPath(<<"opt", "..", "opt", "cline">>),
   AbsPath(<<"opt", "a..b">>), RelPath(<<"proj">>)}

ResolveVersions == {"", "v20.1.0", "v23.11.0", "20.1.0", "v20.1", "v1.2.3/../../x"}

ResolveEnvs == [CLINE_PATH : ResolveOverrides, NODE_VERSION : ResolveVersions]

ResolveFileSystems ==
  {FsBase,
   FsBase \cup {NvmPath(DEFAULT_NODE_VERSION).segs},
   FsBase \cup {NvmPath("v20.1.0").segs, <<"opt", "a..b">>}}

InitResolve ==
  /\ env \in ResolveEnvs
  /\ files \in ResolveFileSystems
  /\ NODE_VERSION = NodeVersionOf(env.NODE_VERSION)
  /\ CLINE_PATH = ClinePathOf(env.CLINE_PATH)
  /\ InitCall
  /\ InitShared

NextResolve ==
  \/ Call({JsString(<<X(3)>>)}, {DefaultOptions})
  \/ ProcessStarts
  \/ SpawnFails
  \/ ExitsZero(PieceSeqsSmall, {<<>>})
  \/ ExitsNonZero(PieceSeqsSmall, {<<>>})
  \/ TimesOut(PieceSeqsSmall, {<<>>})
  \/ Return

SpecResolve == InitResolve /\ [][NextResolve]_vars

\* between two calls the process changes process.env (CLINE_PATH, NODE_VERSION)
EnvChanges ==
  /\ pc = "idle"
  /\ \E e \in ResolveEnvs : e # env /\ env' = e
  /\ UNCHANGED <<files, NODE_VERSION, CLINE_PATH, pc, prompt, options, request, execaCalls, spawned,
                 proc, tier, result, lastIndex, peer, tool, statusReport, app>>

NextEnv ==
  \/ Call({JsString(<<X(3)>>)}, {DefaultOptions})
  \/ ProcessStarts
  \/ SpawnFails
  \/ ExitsZero({<<>>}, {<<>>})
  \/ ExitsNonZero({<<>>}, {<<>>})
  \/ TimesOut({<<>>}, {<<>>})
  \/ Return
  \/ EnvChanges

SpecEnv == InitResolve /\ [][NextEnv]_vars

(***************************************************************************)
(* cline_status.  Whether execa can run a file is the environment's say:   *)
(* the handler finds it out by running the file with the argument version. *)
(***************************************************************************)
\* the files the status functions try
StatusCandidates == {CLINE_PATH, NvmPath(NODE_VERSION)}

\* an absolute file that does not exist cannot be run; a bare name is looked up
\* on the PATH, which the model leaves open
CanRun(file, fs) == file.abs => existsSync(fs, resolve(file))

\* the handler of cline_status: isClineInstalled, then getClineVersion
clineStatus ==
  /\ \E runs \in SUBSET {f \in StatusCandidates : CanRun(f, files)} :
       LET check == isClineInstalled(runs, CLINE_PATH, NODE_VERSION)
           version == getClineVersion(runs, CLINE_PATH, NODE_VERSION)
       IN statusReport' =
            [installed |-> check.installed, found |-> check.found,
             message |-> IF check.installed
                         THEN Txt("Cline CLI v") \o version \o Txt(" is installed and ready!")
                         ELSE Txt("Cline CLI is not installed.")]
  /\ UNCHANGED <<runnerVars, tool, app>>

NextStatus ==
  \/ clineStatus
  \/ Call({JsString(<<X(3)>>)}, {DefaultOptions})
  \/ ProcessStarts
  \/ SpawnFails
  \/ ExitsZero({<<>>}, {<<>>})
  \/ ExitsNonZero({<<>>}, {<<>>})
  \/ TimesOut({<<>>}, {<<>>})
  \/ Return

SpecStatus == InitResolve /\ [][NextStatus]_vars

(***************************************************************************)
(* The desktop app.  Each handler of the App component runs to its await   *)
(* in the event that calls it, and from the await to its end when the      *)
(* backend's promise settles; React renders between events, so a button is *)
(* enabled or disabled by the state the last event left.  The log lines    *)
(* are left out.                                                           *)
(***************************************************************************)
TOOLS == {"cline_status", "code_task", "review_code", "fix_issues", "generate_tests",
          "security_audit", "explain_code", "git_assist"}

MaxPending == 2

\* mutant: the Execute button disabled only by the server status
ExecuteDisabledByServerOnly(a) == a.serverStatus # "running"

\* disabled={isExecuting || serverStatus !== 'running'}
ExecuteDisabled(a) == a.isExecuting \/ a.serverStatus # "running"

appFrame == <<runnerVars, tool, statusReport>>

\* onClick={() => setSelectedTool(tool.name)}
SetSelectedTool ==
  /\ \E t \in TOOLS : app' = [app EXCEPT !.selectedTool = t]
  /\ UNCHANGED appFrame

\* the Start button (shown unless running, disabled while starting): startServer
\* up to its await
startServer ==
  /\ app.serverStatus = "stopped"
  /\ app.starting < MaxPending
  /\ app' = [app EXCEPT !.serverStatus = "starting", !.starting = @ + 1]
  /\ UNCHANGED appFrame

\* start_mcp_server settles: the try or the catch of startServer
StartServerSettles ==
  /\ app.starting > 0
  /\ \E ok \in BOOLEAN :
       app' = [app EXCEPT !.starting = @ - 1,
                          !.serverStatus = IF ok THEN "running" ELSE "stopped"]
  /\ UNCHANGED appFrame

\* the Stop button (shown while running): stopServer up to its await
stopServer ==
  /\ app.serverStatus = "running"
  /\ app.stopping < MaxPending
  /\ app' = [app EXCEPT !.stopping = @ + 1]
  /\ UNCHANGED appFrame

\* stop_mcp_server settles: the try or the catch of stopServer
StopServerSettles ==
  /\ app.stopping > 0
  /\ \E ok \in BOOLEAN :
       app' = [app EXCEPT !.stopping = @ - 1,
                          !.serverStatus = IF ok THEN "stopped" ELSE @]
  /\ UNCHANGED appFrame

\* the refresh button: checkClineStatus up to its await
checkClineStatus ==
  /\ app.checking < MaxPending
  /\ app' = [app EXCEPT !.checking = @ + 1]
  /\ UNCHANGED appFrame

\* check_cline settles: the result includes 'installed', or not, or it rejects
CheckClineSettles ==
  /\ app.checking > 0
  /\ \E outcome \in {"installed", "other", "rejected"} :
       app' = [app EXCEPT !.checking = @ - 1,
                          !.clineStatus = IF outcome = "installed" THEN "installed"
                                          ELSE "not_installed"]
  /\ UNCHANGED appFrame

\* the Execute button (rendered when a tool is selected): executeTool up to its
\* await
executeTool ==
  /\ app.selectedTool # "null"
  /\ ~ExecuteDisabled(app)
  /\ app.executing < MaxPending
  /\ app' = [app EXCEPT !.isExecuting = TRUE, !.toolOutput = "", !.executing = @ + 1]
  /\ UNCHANGED appFrame

\* execute_tool settles: the try or the catch of executeTool, then its finally
ExecuteToolSettles ==
  /\ app.executing > 0
  /\ \E ok \in BOOLEAN :
       app' = [app EXCEPT !.executing = @ - 1,
                          !.toolOutput = IF ok THEN "result" ELSE "Error: ",
                          !.isExecuting = FALSE]
  /\ UNCHANGED appFrame

NextApp ==
  \/ SetSelectedTool
  \/ startServer
  \/ StartServerSettles
  \/ stopServer
  \/ StopServerSettles
  \/ checkClineStatus
  \/ CheckClineSettles
  \/ executeTool
  \/ ExecuteToolSettles

SpecApp == InitOne /\ [][NextApp]_vars

(***************************************************************************)
(* Properties.                                                             *)
(***************************************************************************)
IsString(v) == v.type = "string"
Accepted(v) == IsString(v) /\ v.s # <<>> /\ StrLen(v.s) <= MAX_INPUT_LENGTH
InvalidInputMessages ==
  { << <<"[AgentMesh] Input exceeds maximum length", 1>> >>,
    << <<"[AgentMesh] Invalid input type", 1>> >>,
    << <<"Invalid prompt parameter", 1>> >> }

\* C1: a call whose prompt is longer than 10,000 characters ends by throwing the
\* input-validation error, and execa is not called (no child is started) in it.
C1_LongPromptRejectedBeforeSpawn ==
  (IsString(prompt) /\ StrLen(prompt.s) > 10000) =>
     /\ pc = "done"
     /\ result.kind = "thrown"
     /\ result.error \in InvalidInputMessages
     /\ execaCalls = 0
     /\ spawned = 0

C1_Witness ==
  /\ IsString(prompt) /\ StrLen(prompt.s) = 10001
  /\ pc = "done" /\ result.kind = "thrown" /\ execaCalls = 0

\* the allow-list as the claim words it: letters, digits, whitespace, hyphen,
\* underscore, period, comma, at-sign, forward slash
C2_AllowList == {"x", "n", "say", "text", "response", "7", "s", "N",
                 "-", "_", ".", ",", "@", "/"}

RECURSIVE C2_IsSubsequence(_, _)
C2_IsSubsequence(a, b) ==
  IF a = <<>> THEN TRUE
  ELSE IF b = <<>> THEN FALSE
  ELSE IF a[1] = b[1] THEN C2_IsSubsequence(Tail(a), Tail(b))
  ELSE C2_IsSubsequence(a, Tail(b))

RECURSIVE C2_AllowedLength(_)
C2_AllowedLength(s) ==
  IF s = <<>> THEN 0
  ELSE (IF s[1][1] \in C2_AllowList THEN Width(s[1][1]) * s[1][2] ELSE 0)
         + C2_AllowedLength(Tail(s))

\* C2: for a string of at most 10,000 characters sanitizeInput returns exactly the
\* input's allow-listed characters, in their order, and that is what the call puts
\* on the argument list.
C2_SanitizeKeepsExactlyAllowList ==
  (IsString(prompt) /\ StrLen(prompt.s) <= 10000) =>
     LET out == sanitizeInput(prompt)
     IN /\ ~out.threw
        /\ \A i \in 1..Len(out.value) : out.value[i][1] \in C2_AllowList
        /\ C2_IsSubsequence(out.value, prompt.s)
        /\ StrLen(out.value) = C2_AllowedLength(prompt.s)
        /\ (pc \in {"awaiting", "running"} => request.args.prompt = out.value)

C2_Witness ==
  /\ pc = "awaiting"
  /\ prompt = JsString(<<X(9999), <<";", 1>> >>)
  /\ request.args.prompt = <<X(9999)>>

\* C3 (as claimed): a call whose working directory does not exist, or holds a
\* parent-traversal segment, throws an input-validation error and execa is not
\* called.
C3_BadCwd(cwd) ==
  /\ cwd # EmptyPath
  /\ \/ ~existsSync(files, resolve(cwd))
     \/ \E i \in 1..Len(cwd.segs) : cwd.segs[i] = ".."

C3_BadWorkingDirectoryRejected ==
  (pc # "idle" /\ Accepted(prompt) /\ C3_BadCwd(options.cwd)) =>
     /\ result.kind = "thrown"
     /\ execaCalls = 0
     /\ spawned = 0

C4_OnlyNoise(ps) == \A i \in 1..Len(ps) : ps[i].kind = "noise"

\* C4 (as claimed): after a successful run whose stdout holds no event at all, the
\* returned text is the stdout cut to its first 2,000 characters plus '...' when it
\* is longer than that, and the stdout unchanged otherwise.  (Stated for a stdout
\* that is not empty: for the empty one the code returns its placeholder.)
C4_RawOutputTruncated ==
  (pc = "done" /\ proc.kind = "exit0" /\ C4_OnlyNoise(proc.pieces)
     /\ proc.stdout # <<>>) =>
     result.output =
       IF StrLen(proc.stdout) > 2000
       THEN Substring0(proc.stdout, 2000) \o << <<".", 3>> >>
       ELSE proc.stdout

C5_HasCompletion(ps) ==
  \E i \in 1..Len(ps) : ps[i].kind = "completion" /\ ps[i].text # <<>>
C5_HasPlan(ps) == \E i \in 1..Len(ps) : ps[i].kind = "plan"
C5_Alone(piece) == ExtractOutput(Render(piece), FALSE).output

\* C5: after a successful run, a stream holding a completion event (with a text)
\* yields the text the code reads from a completion event of the stream, whatever
\* plan or text events the stream also holds; a stream with no completion event but
\* a response field yields the text read from a response field of the stream,
\* whatever text events it also holds.
C5_TierOrder ==
  (pc = "done" /\ proc.kind = "exit0") =>
     /\ C5_HasCompletion(proc.pieces) =>
          /\ tier = "completion"
          /\ \E i \in 1..Len(proc.pieces) :
               /\ proc.pieces[i].kind = "completion" /\ proc.pieces[i].text # <<>>
               /\ result.output = C5_Alone(proc.pieces[i])
     /\ (~C5_HasCompletion(proc.pieces) /\ C5_HasPlan(proc.pieces)) =>
          /\ tier = "plan"
          /\ \E i \in 1..Len(proc.pieces) :
               /\ proc.pieces[i].kind = "plan"
               /\ result.output = C5_Alone(proc.pieces[i])

C5_Witness ==
  /\ pc = "done" /\ proc.kind = "exit0"
  /\ proc.pieces = <<Piece("text", T90, FALSE), Piece("completion", TNewline, FALSE)>>
  /\ result.output = TNewline

C6_Qualifying(ps) ==
  {i \in 1..Len(ps) : ps[i].kind = "text" /\ StrLen(Escape(ps[i].text)) > 50}
C6_Longest(ps) ==
  {i \in C6_Qualifying(ps) :
     \A j \in C6_Qualifying(ps) : StrLen(Escape(ps[i].text)) >= StrLen(Escape(ps[j].text))}

\* C6 (as claimed): after a successful run whose stream holds no completion and no
\* plan event, the returned text is the text of a longest text event among those
\* longer than 50 characters, and never the text of a text event of 50 characters or
\* fewer.
C6_LongestQualifyingText ==
  (pc = "done" /\ proc.kind = "exit0"
     /\ \A i \in 1..Len(proc.pieces) : proc.pieces[i].kind \in {"text", "noise"}) =>
     /\ C6_Qualifying(proc.pieces) # {} =>
          \E i \in C6_Longest(proc.pieces) : result.output = proc.pieces[i].text
     /\ \A i \in 1..Len(proc.pieces) :
          (proc.pieces[i].kind = "text" /\ StrLen(Escape(proc.pieces[i].text)) <= 50)
            => result.output # proc.pieces[i].text

\* C7 (as claimed): the text extracted from a completion event is the event's
\* original text: unescaping undoes the escaping of line feeds, quotes and
\* backslashes.
C7_CompletionRoundTrip ==
  (pc = "done" /\ proc.kind = "exit0" /\ Len(proc.pieces) = 1
     /\ proc.pieces[1].kind = "completion" /\ proc.pieces[1].text # <<>>) =>
     result.output = proc.pieces[1].text

\* C8 (as claimed): when the child exceeds the timeout the call returns
\* success = false, the timeout message as diagnostic and the captured stdout as
\* text, whatever was captured on stdout and stderr.
C8_TimeoutReported ==
  (pc = "done" /\ proc.kind = "timeout") =>
     /\ result.kind = "returned"
     /\ ~result.success
     /\ result.error = TIMEOUT_MESSAGE
     /\ result.output = proc.stdout

C10_NonZeroExitResult ==
  (pc = "done" /\ proc.kind = "nonzero") =>
     /\ result.kind = "returned"
     /\ ~result.success
     /\ result.output = proc.stdout
     /\ result.error = IF proc.stderr # <<>> THEN proc.stderr ELSE EXIT_MESSAGE

C10_Witness ==
  /\ pc = "done" /\ proc.kind = "nonzero"
  /\ proc.stderr # <<>> /\ result.error = proc.stderr
  /\ proc.stdout # <<>> /\ result.output = proc.stdout


\* the call has passed its validation and handed a request to execa
Requested == pc \in {"awaiting", "running", "done"} /\ request # NoRequest

\* C11: getClinePath returns the override path when it is set and passes
\* validatePath, otherwise the version-manager path when that passes
\* validatePath, otherwise the bare name 'cline'; it never throws, and a path
\* it returns other than 'cline' has passed validatePath.
C11_Fallback == AbsPath(HOME \o <<".nvm", "versions", "node", NODE_VERSION, "bin", "cline">>)
C11_Bare == RelPath(<<"cline">>)

C11_ResolutionOrder ==
  /\ Requested =>
       /\ (env.CLINE_PATH # EmptyPath /\ validatePath(files, env.CLINE_PATH))
            => request.file = env.CLINE_PATH
       /\ (~(env.CLINE_PATH # EmptyPath /\ validatePath(files, env.CLINE_PATH))
             /\ validatePath(files, C11_Fallback))
            => request.file = C11_Fallback
       /\ (~(env.CLINE_PATH # EmptyPath /\ validatePath(files, env.CLINE_PATH))
             /\ ~validatePath(files, C11_Fallback))
            => request.file = C11_Bare
       /\ request.file # C11_Bare => validatePath(files, request.file)
  /\ (IsString(prompt) /\ prompt.s # <<>> /\ StrLen(prompt.s) <= 10000) => result.kind # "thrown"

\* an override that fails validation is passed over for the version-manager path
C11_Witness ==
  /\ Requested
  /\ env.CLINE_PATH # EmptyPath
  /\ ~validatePath(files, env.CLINE_PATH)
  /\ request.file = C11_Fallback

\* C12: validatePath rejects every candidate path that has a '..' segment, and
\* the resolver then goes on to the next candidate; a path without a '..'
\* segment is accepted exactly when it exists on the filesystem.
C12_HasTraversalSegment(p) == \E i \in 1..Len(p.segs) : p.segs[i] = ".."

C12_Policy(p) ==
  validatePath(files, p)
    = (IF C12_HasTraversalSegment(p) THEN FALSE ELSE existsSync(files, resolve(p)))

C12_TraversalRejected ==
  Requested =>
    /\ C12_HasTraversalSegment(env.CLINE_PATH) => request.file # env.CLINE_PATH
    /\ env.CLINE_PATH # EmptyPath => C12_Policy(env.CLINE_PATH)
    /\ C12_Policy(C11_Fallback)

\* C13: the argument list is -y unless yolo is explicitly false, then -m and
\* the mode only when a mode is given, then --output-format json --oneshot,
\* then the sanitized prompt as the last element, and nothing else.
C13_Flags(o) ==
  CASE o.yolo = "false" /\ o.mode = "unset" -> <<"--output-format", "json", "--oneshot">>
    [] o.yolo = "false" /\ o.mode # "unset" ->
         <<"-m", o.mode, "--output-format", "json", "--oneshot">>
    [] o.yolo # "false" /\ o.mode = "unset" ->
         <<"-y", "--output-format", "json", "--oneshot">>
    [] OTHER -> <<"-y", "-m", o.mode, "--output-format", "json", "--oneshot">>

C13_ArgumentList ==
  Requested =>
    /\ request.args.flags = C13_Flags(options)
    /\ request.args.prompt = SelectSeq(prompt.s, LAMBDA c : c[1] \in C2_AllowList)

C13_Witness ==
  /\ Requested
  /\ options.yolo = "unset"
  /\ options.mode = "plan"
  /\ \E i \in 1..Len(prompt.s) : prompt.s[i][1] \notin C2_AllowList

\* C14: one call of runClineTask starts the child process at most once: after
\* a spawn failure, a timeout or a non-zero exit it returns the failed result
\* and no further child has been started.
C14_AtMostOneSpawn ==
  /\ execaCalls <= 1
  /\ spawned <= 1
  /\ (pc = "done" /\ proc.kind \in {"spawnfail", "timeout", "nonzero"}) =>
       /\ result.kind = "returned"
       /\ ~result.success
       /\ spawned = (IF proc.kind = "spawnfail" THEN 0 ELSE 1)
  /\ (pc = "awaiting") => spawned = 0

C14_Witness == pc = "done" /\ proc.kind = "timeout" /\ spawned = 1 /\ ~result.success

\* C16: after a successful run the returned text is never empty, whatever the
\* stdout.
C16_TextNeverEmpty ==
  (pc = "done" /\ proc.kind = "exit0" /\ result.kind = "returned" /\ result.success)
    => result.output # <<>>

\* C19: the executable path is resolved afresh on every call from the current
\* environment: the file a call hands to execa is the one the override path
\* and the version string have at the time of the call.
C19_CurrentFallback ==
  AbsPath(HOME \o <<".nvm", "versions", "node",
                    (IF env.NODE_VERSION \in {"v20.1.0", "v23.11.0"}
                     THEN env.NODE_VERSION ELSE "v23.11.0"),
                    "bin", "cline">>)

C19_ResolvedAfresh ==
  Requested =>
    request.file =
      (IF env.CLINE_PATH # EmptyPath /\ validatePath(files, env.CLINE_PATH)
       THEN env.CLINE_PATH
       ELSE IF validatePath(files, C19_CurrentFallback) THEN C19_CurrentFallback
       ELSE C11_Bare)

\* C20: the version string used in the fallback path is the environment value
\* only when it is v<digits>.<digits>.<digits>; an unset or non-matching value
\* is replaced by v23.11.0.
C20_Strict(v) ==
  LET c == VersionChars(v)
  IN \E i, j \in 1..Len(c) :
       /\ 2 < i /\ i + 1 < j /\ j < Len(c)
       /\ c[1] = "v" /\ c[i] = "." /\ c[j] = "."
       /\ \A k \in (2..Len(c)) \ {i, j} : c[k] = "7"

C20_VersionValidated ==
  /\ NODE_VERSION = (IF C20_Strict(env.NODE_VERSION) THEN env.NODE_VERSION ELSE "v23.11.0")
  /\ C20_Strict(NODE_VERSION)
  /\ C11_Fallback.segs[Len(HOME) + 4] = NODE_VERSION

C20_Witness ==
  /\ Requested
  /\ env.NODE_VERSION = "v1.2.3/../../x"
  /\ NODE_VERSION = "v23.11.0"
  /\ request.file = C11_Fallback

\* C15: in agent_workflow a step is started only after the step before it
\* was seen to succeed, and none after the first failed step: the number of
\* runner calls is the index of the first failing step, or the number of
\* steps when none fails, and at most one call is in flight at any time.
C15_FirstFailure(outcomes) ==
  LET bad == {k \in 1..Len(outcomes) : outcomes[k] # "ok"}
  IN IF bad = {} THEN 0 ELSE CHOOSE k \in bad : \A j \in bad : k <= j

C15_SequentialUntilFailure ==
  tool.name = "agent_workflow" =>
    /\ tool.inFlight = (IF pc # "idle" THEN 1 ELSE 0)
    /\ tool.inFlight <= 1
    /\ tool.invocations = Len(tool.outcomes) + tool.inFlight
    /\ \A k \in 1..(Len(tool.outcomes) - 1) : tool.outcomes[k] = "ok"
    /\ (tool.inFlight = 1) => \A k \in 1..Len(tool.outcomes) : tool.outcomes[k] = "ok"
    /\ tool.pc \in {"returned", "threw"} =>
         tool.invocations = (IF C15_FirstFailure(tool.outcomes) # 0
                             THEN C15_FirstFailure(tool.outcomes)
                             ELSE Len(tool.steps))

C15_Witness ==
  /\ tool.name = "agent_workflow"
  /\ tool.pc = "returned"
  /\ Len(tool.steps) >= 3
  /\ tool.outcomes = <<"ok", "failed">>
  /\ tool.invocations = 2

\* C17: when the runner returns a failed result whose text is not empty, the
\* message of every tool handler that calls the runner includes that text.
C17_Includes(message, text) ==
  \E k \in 1..(Len(message) - Len(text) + 1) : SubSeq(message, k, k + Len(text) - 1) = text

C17_PartialOutputSurfaced ==
  (/\ tool.pc = "returned"
   /\ tool.last.kind = "returned"
   /\ ~tool.last.success
   /\ tool.last.output # <<>>)
    => C17_Includes(tool.message, tool.last.output)

\* C18: runner calls share no mutable state: when two calls are interleaved
\* at their awaits, each returns the result it would return alone, fixed by
\* its own prompt, options and process outcome, and the module's state is
\* the same before and after every call.
C18_Alone(f) ==
  LET pre == Preflight(f.prompt, f.options, env, NODE_VERSION, files)
  IN IF pre.threw THEN Thrown(pre.message)
     ELSE CASE f.proc.kind = "exit0" -> OnResolved(f.proc.stdout, f.proc.stderr, FALSE)
            [] f.proc.kind = "nonzero" ->
                 OnRejected(ExecaError(EXIT_MESSAGE, f.proc.stdout, f.proc.stderr))
            [] f.proc.kind = "timeout" ->
                 OnRejected(ExecaError(TIMEOUT_MESSAGE, f.proc.stdout, f.proc.stderr))
            [] OTHER -> OnRejected(ExecaError(SPAWN_MESSAGE, f.proc.stdout, f.proc.stderr))

C18_FrameAlone(f) ==
  /\ f.pc = "done" => f.result = C18_Alone(f)
  /\ f.pc \in {"awaiting", "running"} =>
       f.request = Preflight(f.prompt, f.options, env, NODE_VERSION, files).value

C18_NoSharedState ==
  /\ C18_FrameAlone(CurrentFrame)
  /\ C18_FrameAlone(peer)
  /\ lastIndex = 0
  /\ NODE_VERSION = DEFAULT_NODE_VERSION

\* both calls have gone through the text tier, the one that uses the g pattern
C18_Witness ==
  /\ pc = "done" /\ peer.pc = "done"
  /\ prompt # peer.prompt
  /\ tier = "text" /\ peer.tier = "text"
  /\ result.output # peer.result.output


\* C21: for every accepted input the sanitized prompt is never longer than the
\* input, hence at most 10,000 characters: so says sanitizeInput of the prompt,
\* and so is the prompt the call puts on the argument list.
C21_SanitizedNoLonger ==
  /\ Accepted(prompt) =>
       LET out == sanitizeInput(prompt)
       IN /\ ~out.threw
          /\ StrLen(out.value) <= StrLen(prompt.s)
          /\ StrLen(out.value) <= 10000
  /\ Requested =>
       /\ StrLen(request.args.prompt) <= StrLen(prompt.s)
       /\ StrLen(request.args.prompt) <= 10000

C21_Witness ==
  /\ pc = "done"
  /\ prompt = JsString(<< <<";", 1>>, X(9999)>>)
  /\ StrLen(request.args.prompt) = 9999


\* C27: every prompt that reaches the process invocation is non-empty after
\* sanitizing: the prompt on the argument list handed to execa is never the empty
\* string.
C27_PromptNonEmpty ==
  Requested => request.args.prompt # <<>>


\* C29: a call that returns has success = true exactly when the process was
\* spawned and exited with status zero within the timeout, whatever it wrote to
\* stderr; then a non-empty stderr is the result's diagnostic and an empty one
\* leaves the diagnostic unset.
C29_SuccessIffExitZero ==
  (pc = "done" /\ result.kind = "returned") =>
     /\ result.success <=> (spawned = 1 /\ proc.kind = "exit0")
     /\ proc.kind = "exit0" =>
          result.error = (IF proc.stderr # <<>> THEN proc.stderr ELSE UNDEFINED)

C29_Witness ==
  /\ pc = "done" /\ proc.kind = "exit0" /\ spawned = 1
  /\ proc.stderr # <<>>
  /\ result.success /\ result.error = proc.stderr


\* C24: the unescape steps of the plan-response tier (newlines, quotes,
\* backslashes) give back the string the agent encoded: a stream whose one event
\* is a plan response yields that response's text, so an escaped backslash followed
\* by the letter n yields a backslash and the letter n.
C24_PlanRoundTrip ==
  (pc = "done" /\ proc.kind = "exit0" /\ tier = "plan" /\ Len(proc.pieces) = 1) =>
     result.output = proc.pieces[1].text


\* C28: the report agent_workflow returns holds the closing line
\* 'Workflow ... completed!' only when every step of the workflow ran and
\* succeeded.
C28_CompletedOnlyWhenAllSucceeded ==
  (/\ tool.name = "agent_workflow"
   /\ tool.pc = "returned"
   /\ C17_Includes(tool.message, Txt("Workflow completed!"))) =>
     /\ Len(tool.outcomes) = Len(tool.steps)
     /\ \A k \in 1..Len(tool.outcomes) : tool.outcomes[k] = "ok"


\* C22: when cline_status has reported the agent installed, a runner call made in
\* the same environment and filesystem hands execa a file the status check found
\* runnable: the status check and getClinePath agree.
C22_StatusAgreesWithRunner ==
  (statusReport.installed /\ Requested) => request.file \in statusReport.found


\* C30: in the desktop app isExecuting is true exactly while an execute_tool
\* invocation is pending (set when it is made, cleared when it settles, with a
\* result or with an error); at most one invocation is pending at a time; and an
\* invocation is made only with serverStatus = 'running' and none pending.
C30_PendingInvariant ==
  /\ app.isExecuting <=> app.executing > 0
  /\ app.executing <= 1

C30_StartedWhenRunning ==
  app'.executing > app.executing =>
    /\ app.serverStatus = "running"
    /\ ~app.isExecuting /\ app.executing = 0
    /\ app'.isExecuting

C30_ClearedOnSettle ==
  app'.executing < app.executing => ~app'.isExecuting

C30_ExecutionGuarded ==
  /\ []C30_PendingInvariant
  /\ [][C30_StartedWhenRunning /\ C30_ClearedOnSettle]_vars

C30_Witness ==
  /\ app.executing = 1 /\ app.isExecuting
  /\ app.selectedTool = "code_task" /\ app.toolOutput = ""
  /\ app.serverStatus = "stopped"


\* what the extraction yields when the match of one tier counts as no match and
\* the tiers after it are tried
C23_WithoutCompletion(stdout) == PlanTier(stdout).output
C23_WithoutPlan(stdout) ==
  IF COMPLETION(stdout).matched THEN ExtractOutput(stdout, FALSE).output
  ELSE TextTier(stdout).output
C23_WithoutText(stdout) ==
  IF COMPLETION(stdout).matched \/ PLAN_MODE(stdout).matched
  THEN ExtractOutput(stdout, FALSE).output
  ELSE RawFallback(stdout)

\* C23: when a match raises during the extraction, the tier it belongs to counts
\* as not matched and the tiers after it are still tried, the raw output being
\* used only when none of them matches; the call still returns success = true.
C23_FailureIsNoMatch ==
  (pc = "done" /\ proc.kind = "exit0" /\ tier = "caught") =>
     /\ result.kind = "returned" /\ result.success
     /\ result.output \in {C23_WithoutCompletion(proc.stdout), C23_WithoutPlan(proc.stdout),
                           C23_WithoutText(proc.stdout)}


\* C25: a call of fix_issues with dryRun = true hands execa an argument list
\* without '-y'; with dryRun false or unset the argument list has '-y'.
C25_HasYolo(flags) == \E k \in 1..Len(flags) : flags[k] = "-y"

C25_DryRunNeverAutoApproves ==
  (tool.name = "fix_issues" /\ Requested) =>
     (C25_HasYolo(request.args.flags) <=> tool.dryRun # "true")

C25_Witness ==
  /\ tool.name = "fix_issues" /\ tool.dryRun = "true"
  /\ pc = "running" /\ spawned = 1
  /\ request.args.flags = <<"--output-format", "json", "--oneshot">>

\* the action name execute-decision gives to a recommended action
C26_RunsAs(action) ==
  CASE action = "security_audit" -> "Security Audit & Fix"
    [] action = "fix_issues" -> "Bug Fix"
    [] action = "review_code" -> "Code Review"
    [] OTHER -> "Generate Tests"

\* C26: for one summary, execute-decision has run through the agent, when it
\* returns, every action that process-summary recommends for that summary.
C26_ExecutesRecommended ==
  (/\ tool.name = "kestra_code_intel"
   /\ tool.action = "execute-decision"
   /\ tool.pc = "returned") =>
     \A n \in 1..Len(RecommendedActions(tool.summary)) :
       \E k \in 1..Len(tool.outcomes) :
         tool.steps[k].name = C26_RunsAs(RecommendedActions(tool.summary)[n])

=============================================================================
